---- MODULE Spec2Model ----
(***************************************************************************)
(* Model of app.py: the NGN/USD exchange-rate fetcher (get_exchange_rate), *)
(* the Flask application object with its registered routes, the command    *)
(* line display main() and the script entry block.                         *)
(*                                                                         *)
(* Python values are modelled as tagged records.  A JSON number is a       *)
(* rational n/d (d > 0, lowest terms); an integer literal beyond the range *)
(* of a float is the separate value JBig.  A Python dict is a TLA+         *)
(* function from its keys, so `'error' in result` is a DOMAIN test.        *)
(***************************************************************************)
EXTENDS Integers, Sequences, FiniteSets, TLC

VARIABLES proc, fetchCount, outbound, op, up, result, response, stdout, mainState

vars == <<proc, fetchCount, outbound, op, up, result, response, stdout, mainState>>

(* Upper bound on the number of get_exchange_rate() invocations explored. *)
MaxCalls == 2

---------------------------------------------------------------------------
(* JSON / Python values *)

JNum(n, d) == [t |-> "num", n |-> n, d |-> d]
JBig == [t |-> "bigint"]
JStr(s) == [t |-> "str", s |-> s]
JNull == [t |-> "null"]
JArr == [t |-> "arr"]
JObj(m) == [t |-> "obj", m |-> m]

Abs(x) == IF x < 0 THEN -x ELSE x

RECURSIVE Gcd(_, _)
Gcd(a, b) == IF b = 0 THEN a ELSE Gcd(b, a % b)

(* The rational n/d in lowest terms with a positive denominator. *)
Norm(n, d) ==
    LET g == Gcd(Abs(n), Abs(d))
        s == IF d < 0 THEN -1 ELSE 1
    IN  JNum((s * n) \div g, (s * d) \div g)

(* Variant: the test `if ngn_rate is not None:`. *)
Truthy_isNotNone(v) == v.t # "null"

(* Python truth value of a value, as tested by `if ngn_rate:`. *)
Truthy(v) ==
    CASE v.t = "num" -> v.n # 0
      [] v.t = "bigint" -> TRUE
      [] v.t = "str" -> v.s # ""
      [] v.t = "null" -> FALSE
      [] v.t = "arr" -> TRUE
      [] v.t = "obj" -> DOMAIN v.m # {}

TypeName(v) ==
    CASE v.t = "num" -> IF v.d = 1 THEN "int" ELSE "float"
      [] v.t = "bigint" -> "int"
      [] v.t = "str" -> "str"
      [] v.t = "null" -> "NoneType"
      [] v.t = "arr" -> "list"
      [] v.t = "obj" -> "dict"

(* Outcome of evaluating a Python expression: a value or a raised exception. *)
Return(v) == [kind |-> "ret", val |-> v]
Raise(cls, text) == [kind |-> "exc", cls |-> cls, text |-> text]

---------------------------------------------------------------------------
(* get_exchange_rate *)

API_URL == "https://open.er-api.com/v6/latest/USD"

(* str(v), as used by f-string interpolation of a body field. *)
PyStr(v) ==
    CASE v.t = "str" -> v.s
      [] v.t = "null" -> "None"
      [] v.t = "num" -> IF v.d = 1 THEN ToString(v.n) ELSE ToString(v.n) \o "/" \o ToString(v.d)
      [] v.t = "bigint" -> "1e400"
      [] v.t = "arr" -> "[]"
      [] v.t = "obj" -> "{...}"

(* Variant: no `except requests.RequestException` clause matches. *)
IsRequestException_none(cls) == FALSE

(* The exception classes that `except requests.RequestException` catches.
   requests.JSONDecodeError (requests 2.27 and later) derives from
   RequestException; json.JSONDecodeError (a ValueError) does not. *)
IsRequestException(cls) == cls \in {"RequestException", "requests.JSONDecodeError"}

(* The classes response.json() may raise on a body that is not JSON.  Which
   one depends on the installed requests release, which app.py does not pin:
   requests.JSONDecodeError from 2.27 on, json.JSONDecodeError before. *)
JsonErrorClasses == {"requests.JSONDecodeError", "json.JSONDecodeError"}

(* requests.get(url): the response, or the transport error raised. *)
requests_get(u) ==
    IF u.transport = "fail"
    THEN Raise("RequestException", u.text)
    ELSE Return([status_code |-> u.status, body |-> u.body])

(* response.json() *)
response_json(resp) ==
    IF resp.body.valid
    THEN Return(resp.body.data)
    ELSE Raise(resp.body.raises, "Expecting value: line 1 column 1 (char 0)")

(* data[key] *)
Subscript(data, key) ==
    IF data.t = "obj"
    THEN IF key \in DOMAIN data.m
         THEN Return(data.m[key])
         ELSE Raise("KeyError", "'" \o key \o "'")
    ELSE IF data.t = "arr"
         THEN Raise("TypeError", "list indices must be integers or slices, not str")
         ELSE Raise("TypeError", "'" \o TypeName(data) \o "' object is not subscriptable")

(* data.get(key, default) *)
DictGet(data, key, default) ==
    IF data.t = "obj"
    THEN Return(IF key \in DOMAIN data.m THEN data.m[key] ELSE default)
    ELSE Raise("AttributeError",
               "'" \o TypeName(data) \o "' object has no attribute 'get'")

(* Variant: `usd_rate = ngn_rate`, the rate taken without inverting it. *)
Invert_notInverted(v) ==
    IF v.t \in {"num", "bigint"} THEN Return(v)
    ELSE Raise("TypeError", "unsupported operand type(s) for /: 'int' and '"
                            \o TypeName(v) \o "'")

(* 1 / ngn_rate.  The quotient of 1 by an integer beyond the float range
   underflows to 0.0; a zero divisor raises ZeroDivisionError. *)
Invert(v) ==
    CASE v.t = "num" -> IF v.n = 0
                        THEN Raise("ZeroDivisionError", "division by zero")
                        ELSE Return(Norm(v.d, v.n))
      [] v.t = "bigint" -> Return(JNum(0, 1))
      [] OTHER -> Raise("TypeError", "unsupported operand type(s) for /: 'int' and '"
                                      \o TypeName(v) \o "'")

(* Lines 24-30: the Success dictionary. *)
SuccessDict(data, ngn_rate, now) ==
    LET usd_rate == Invert(ngn_rate) IN
    IF usd_rate.kind = "exc" THEN usd_rate
    ELSE LET upd == Subscript(data, "time_last_update_utc") IN
         IF upd.kind = "exc" THEN upd
         ELSE Return([ngn_to_usd |-> usd_rate.val,
                      usd_to_ngn |-> ngn_rate,
                      last_updated |-> upd.val,
                      current_time |-> now])

(* Line 34: the API error dictionary. *)
ApiErrorDict(data) ==
    LET et == DictGet(data, "error-type", JStr("Unknown error")) IN
    IF et.kind = "exc" THEN et
    ELSE Return([error |-> "API Error: " \o PyStr(et.val)])

(* Lines 20-32: the NGN lookup and its truth test. *)
NgnBranch(data, now) ==
    LET rates == Subscript(data, "rates") IN
    IF rates.kind = "exc" THEN rates
    ELSE LET ngn_rate == DictGet(rates.val, "NGN", JNull) IN
         IF ngn_rate.kind = "exc" THEN ngn_rate
         ELSE IF Truthy(ngn_rate.val)
              THEN SuccessDict(data, ngn_rate.val, now)
              ELSE Return([error |-> "NGN rate not found in the response"])

(* Variant: the test `data['result'] == 'success'` alone, without the status. *)
IsSuccessResponse_ignoresStatus(resp, data) ==
    LET r == Subscript(data, "result") IN
    IF r.kind = "exc" THEN r ELSE Return(r.val = JStr("success"))

(* Line 18: status_code == 200 and data['result'] == 'success'.  `and`
   short-circuits: data['result'] is evaluated only for status 200. *)
IsSuccessResponse(resp, data) ==
    IF resp.status_code # 200 THEN Return(FALSE)
    ELSE LET r == Subscript(data, "result") IN
         IF r.kind = "exc" THEN r ELSE Return(r.val = JStr("success"))

(* Lines 15-34: the body of the try statement. *)
TryBody(u, now) ==
    LET got == requests_get(u) IN
    IF got.kind = "exc" THEN got
    ELSE LET parsed == response_json(got.val) IN
         IF parsed.kind = "exc" THEN parsed
         ELSE LET ok == IsSuccessResponse(got.val, parsed.val) IN
              IF ok.kind = "exc" THEN ok
              ELSE IF ok.val THEN NgnBranch(parsed.val, now)
                   ELSE ApiErrorDict(parsed.val)

(* Variant: the `except Exception` clause missing, other errors propagate. *)
HandleException_noCatchAll(e) ==
    IF IsRequestException(e.cls)
    THEN Return([error |-> "Request failed: " \o e.text])
    ELSE e

(* Lines 36-39: the two except clauses, tried in order. *)
HandleException(e) ==
    IF IsRequestException(e.cls)
    THEN Return([error |-> "Request failed: " \o e.text])
    ELSE Return([error |-> "An unexpected error occurred: " \o e.text])

(* Lines 11-39: the outcome of one call. *)
get_exchange_rate(u, now) ==
    LET r == TryBody(u, now) IN
    IF r.kind = "exc" THEN HandleException(r) ELSE r

(* Variant: a transport failure is retried once. *)
OutboundCalls_retry(u) ==
    IF u.transport = "fail" THEN <<API_URL, API_URL>> ELSE <<API_URL>>

(* The outbound requests one call issues (line 15). *)
OutboundCalls(u) == <<API_URL>>

---------------------------------------------------------------------------
(* Number formatting: "%.6f" and "%.2f" *)

RECURSIVE Pow10(_)
Pow10(k) == IF k = 0 THEN 1 ELSE 10 * Pow10(k - 1)

RECURSIVE ZeroPad(_, _)
ZeroPad(x, k) == IF k = 0 THEN "" ELSE ZeroPad(x \div 10, k - 1) \o ToString(x % 10)

(* |n/d| * 10^k rounded to the nearest integer, ties to even. *)
Scaled(v, k) ==
    LET num == Abs(v.n) * Pow10(k)
        q == num \div v.d
        r == num % v.d
    IN  IF 2 * r > v.d \/ (2 * r = v.d /\ q % 2 = 1) THEN q + 1 ELSE q

(* "%.kf" % v: fixed-point text with k decimals.  An integer beyond the
   float range cannot be converted and raises OverflowError. *)
FormatFixed(v, k) ==
    CASE v.t = "num" ->
            LET q == Scaled(v, k) IN
            Return((IF v.n < 0 THEN "-" ELSE "") \o ToString(q \div Pow10(k))
                   \o "." \o ZeroPad(q % Pow10(k), k))
      [] v.t = "bigint" -> Raise("OverflowError", "int too large to convert to float")
      [] OTHER -> Raise("TypeError", "must be real number, not " \o TypeName(v))

---------------------------------------------------------------------------
(* The web application *)

(* {{ e }} under autoescaping: the HTML-escaped text of e, kept symbolic. *)
Escape(s) == [escaped |-> s]

(* HTML_TEMPLATE rendered with the keyword arguments ctx: the paragraphs of
   the container, or the exception a filter raises. *)
HTML_TEMPLATE(ctx) ==
    IF "error" \in DOMAIN ctx /\ ctx.error # ""
    THEN Return(<<[class |-> "error", text |-> Escape(ctx.error)]>>)
    ELSE LET a == FormatFixed(ctx.ngn_to_usd, 6) IN
         IF a.kind = "exc" THEN a
         ELSE LET b == FormatFixed(ctx.usd_to_ngn, 2) IN
              IF b.kind = "exc" THEN b
              ELSE Return(<<
                [class |-> "rate", text |-> Escape("1 NGN = " \o a.val \o " USD")],
                [class |-> "rate", text |-> Escape("1 USD = " \o b.val \o " NGN")],
                [class |-> "info", text |-> Escape("Last Updated: " \o PyStr(ctx.last_updated))],
                [class |-> "info", text |-> Escape("Current Time: " \o ctx.current_time)]>>)

(* index(): the view function of '/', given the value the fetch returned. *)
index(fetched) ==
    IF fetched.kind = "exc" THEN fetched
    ELSE HTML_TEMPLATE(fetched.val)

(* The rules registered on app with @app.route. *)
url_map == {"/"}

NoResult == [unset |-> TRUE]
NoUpstream == [transport |-> "none"]
NoResponse == [path |-> "", status |-> 0, body |-> <<>>, fault |-> ""]

(* Flask's handling of GET path: 404 for a path without a rule, 500 when the
   view function raises, else 200 with what the view function returned. *)
full_dispatch_request(path, u, now) ==
    IF path \notin url_map
    THEN [response |-> [path |-> path, status |-> 404, body |-> <<"Not Found">>, fault |-> ""],
          calls |-> <<>>, fetches |-> 0, result |-> NoResult, up |-> NoUpstream]
    ELSE LET fetched == get_exchange_rate(u, now)
             rv == index(fetched)
         IN  [response |-> IF rv.kind = "exc"
                           THEN [path |-> path, status |-> 500,
                                 body |-> <<"Internal Server Error">>, fault |-> rv.cls]
                           ELSE [path |-> path, status |-> 200, body |-> rv.val, fault |-> ""],
              calls |-> OutboundCalls(u), fetches |-> 1,
              result |-> IF fetched.kind = "exc" THEN NoResult ELSE fetched.val,
              up |-> u]

---------------------------------------------------------------------------
(* The command line display and the script entry block *)

(* Lines 91-98 of main(): the lines printed for a returned value, and whether
   main returned or an exception left it. *)
PrintResult(res) ==
    IF "error" \in DOMAIN res
    THEN [out |-> <<"Error: " \o res.error>>, state |-> "returned"]
    ELSE LET a == FormatFixed(res.ngn_to_usd, 6)
             b == FormatFixed(res.usd_to_ngn, 2)
         IN  IF a.kind = "exc"
             THEN [out |-> <<"Current Exchange Rates:">>, state |-> "raised"]
             ELSE IF b.kind = "exc"
             THEN [out |-> <<"Current Exchange Rates:", "1 NGN = " \o a.val \o " USD">>,
                   state |-> "raised"]
             ELSE [out |-> <<"Current Exchange Rates:",
                             "1 NGN = " \o a.val \o " USD",
                             "1 USD = " \o b.val \o " NGN",
                             "\nLast Updated: " \o PyStr(res.last_updated),
                             "Current Time: " \o res.current_time>>,
                   state |-> "returned"]

(* main(), lines 85-98. *)
main(u, now) ==
    LET fetched == get_exchange_rate(u, now)
        banner == <<"Fetching current NGN to USD exchange rate...\n">>
    IN  IF fetched.kind = "exc"
        THEN [out |-> banner, state |-> "raised", result |-> NoResult]
        ELSE LET p == PrintResult(fetched.val) IN
             [out |-> banner \o p.out, state |-> p.state, result |-> fetched.val]

(* Variant: the entry block calls main() and exits. *)
ScriptBlock_callsMain ==
    [out |-> <<"Fetching current NGN to USD exchange rate...\n">>,
     proc |-> "exited", fetches |-> 1]

(* The `if __name__ == "__main__"` block, lines 100-103: what it prints, the
   process state it leaves (app.run serves until interrupted) and the number
   of fetches it performs itself: it does not call main(). *)
ScriptBlock ==
    [out |-> <<"Starting web server. Access the exchange rate at http://127.0.0.1:5000/">>,
     proc |-> "serving", fetches |-> 0]

---------------------------------------------------------------------------
(* The environment: what the upstream endpoint may do on one GET *)

Empty == [k \in {} |-> JNull]

NgnValues ==
    {JNum(0, 1), JNum(1000, 1), JNum(1500, 1), JBig, JStr("abc"), JNull}

RatesOpts ==
    {Empty, "rates" :> JNull, "rates" :> JObj("EUR" :> JNum(9, 10))}
    \cup {"rates" :> JObj("NGN" :> v @@ "EUR" :> JNum(9, 10)) : v \in NgnValues}

ResultOpts == {Empty, "result" :> JStr("success"), "result" :> JStr("error")}

TimeOpts == {Empty, "time_last_update_utc" :> JStr("Fri, 02 Jan 2026 12:30:00 +0000")}

ErrorTypeOpts == {Empty, "error-type" :> JStr("forbidden")}

Bodies ==
    {[valid |-> FALSE, raises |-> c] : c \in JsonErrorClasses}
    \cup {[valid |-> TRUE, data |-> JArr]}
    \cup {[valid |-> TRUE, data |-> JObj(a @@ b @@ c @@ d)] :
            a \in ResultOpts, b \in RatesOpts, c \in TimeOpts, d \in ErrorTypeOpts}

Statuses == {200, 403}

ErrorTexts == {"Connection refused", "Network unreachable"}

Upstream ==
    {[transport |-> "fail", text |-> t] : t \in ErrorTexts}
    \cup {[transport |-> "ok", status |-> st, body |-> b] : st \in Statuses, b \in Bodies}

(* datetime.now().strftime('%Y-%m-%d %H:%M:%S') *)
Clock == {"2026-01-02 12:31:07", "2026-01-02 12:31:08"}

---------------------------------------------------------------------------
(* State machine *)

Init ==
    /\ proc = "notrun"
    /\ fetchCount = 0
    /\ outbound = <<>>
    /\ op = "init"
    /\ up = NoUpstream
    /\ result = NoResult
    /\ response = NoResponse
    /\ stdout = <<>>
    /\ mainState = "notcalled"

(* A direct call of get_exchange_rate(), as the unit tests make. *)
CallFetch ==
    /\ fetchCount < MaxCalls
    /\ \E u \in Upstream, now \in Clock :
         LET r == get_exchange_rate(u, now) IN
         /\ result' = (IF r.kind = "exc" THEN NoResult ELSE r.val)
         /\ up' = u
         /\ outbound' = outbound \o OutboundCalls(u)
    /\ fetchCount' = fetchCount + 1
    /\ op' = "fetch"
    /\ response' = NoResponse
    /\ stdout' = <<>>
    /\ mainState' = "notcalled"
    /\ UNCHANGED proc

(* An inbound GET for path, handled by the Flask application.  The upstream
   endpoint and the clock are consulted only by a view function, so only a
   routed path draws them. *)
HttpGet(path) ==
    /\ fetchCount < MaxCalls
    /\ \E u \in (IF path \in url_map THEN Upstream ELSE {NoUpstream}),
          now \in (IF path \in url_map THEN Clock ELSE {""}) :
         LET h == full_dispatch_request(path, u, now) IN
         /\ response' = h.response
         /\ result' = h.result
         /\ up' = h.up
         /\ outbound' = outbound \o h.calls
         /\ fetchCount' = fetchCount + h.fetches
    /\ op' = "GET " \o path
    /\ stdout' = <<>>
    /\ mainState' = "notcalled"
    /\ UNCHANGED proc

GetIndex == HttpGet("/")

GetHealth == HttpGet("/health")

(* A call of main(). *)
CallMain ==
    /\ fetchCount < MaxCalls
    /\ \E u \in Upstream, now \in Clock :
         LET m == main(u, now) IN
         /\ stdout' = m.out
         /\ mainState' = m.state
         /\ result' = m.result
         /\ up' = u
         /\ outbound' = outbound \o OutboundCalls(u)
    /\ fetchCount' = fetchCount + 1
    /\ op' = "main"
    /\ response' = NoResponse
    /\ UNCHANGED proc

(* Running app.py as a script. *)
RunScript ==
    /\ proc = "notrun"
    /\ proc' = ScriptBlock.proc
    /\ stdout' = ScriptBlock.out
    /\ fetchCount' = fetchCount + ScriptBlock.fetches
    /\ op' = "script"
    /\ up' = NoUpstream
    /\ result' = NoResult
    /\ response' = NoResponse
    /\ mainState' = "notcalled"
    /\ UNCHANGED outbound

Next == CallFetch \/ GetIndex \/ GetHealth \/ CallMain \/ RunScript

Spec == Init /\ [][Next]_vars

---------------------------------------------------------------------------
(* Vocabulary of the properties *)

(* The last operation invoked get_exchange_rate(). *)
Fetched == op \in {"fetch", "GET /", "main"}

IsSuccess(r) == DOMAIN r = {"ngn_to_usd", "usd_to_ngn", "last_updated", "current_time"}
IsFailure(r) == DOMAIN r = {"error"}

(* The GET returned a response whose body parsed. *)
Parsed == Fetched /\ up.transport = "ok" /\ up.body.valid
ParsedObject == Parsed /\ up.body.data.t = "obj"
Has(k) == ParsedObject /\ k \in DOMAIN up.body.data.m
Field(k) == up.body.data.m[k]
DeclaresSuccess == Has("result") /\ Field("result").t = "str" /\ Field("result").s = "success"
HasRatesMapping == Has("rates") /\ Field("rates").t = "obj"
NgnPresent == HasRatesMapping /\ "NGN" \in DOMAIN Field("rates").m
Ngn == Field("rates").m["NGN"]
PositiveNumber(v) == v.t = "num" /\ v.n > 0
ErrorTypeText == IF Has("error-type") THEN Field("error-type").s ELSE "Unknown error"
NotFound == [error |-> "NGN rate not found in the response"]

---------------------------------------------------------------------------
(* C1: every GET /health is answered with status 200 and body exactly OK,
   whatever the upstream endpoint does, and without a call of the rate
   fetcher. *)
C1_HealthAlwaysOK ==
    op = "GET /health" =>
        /\ response.status = 200
        /\ response.body = <<"OK">>
        /\ result = NoResult

(* C2: every GET / is answered with status 200, whatever the fetch
   produced; a failed fetch shows only in the body, and the handler never
   faults. *)
C2_IndexAlways200 ==
    op = "GET /" => response.status = 200 /\ response.fault = ""

(* C3: every call of get_exchange_rate() returns, and returns exactly one of
   the Success variant (all four fields) and the Failure variant (a message). *)
C3_FetchAlwaysReturnsResult ==
    Fetched => (IsSuccess(result) /\ ~IsFailure(result))
               \/ (IsFailure(result) /\ ~IsSuccess(result))

C3_Witness_CaughtParseError ==
    /\ op = "fetch"
    /\ ParsedObject /\ up.status = 200 /\ ~Has("result")
    /\ IsFailure(result)

(* C4 as stated: every response with status 200, result "success" and an NGN
   rate r > 0 yields Success with ngn_to_usd = 1/r, usd_to_ngn = r and
   last_updated the response's time_last_update_utc field. *)
C4_Original ==
    (Parsed /\ up.status = 200 /\ DeclaresSuccess /\ NgnPresent /\ PositiveNumber(Ngn)) =>
        /\ IsSuccess(result)
        /\ result.ngn_to_usd.n * Ngn.n = result.ngn_to_usd.d * Ngn.d
        /\ result.usd_to_ngn = Ngn
        /\ Has("time_last_update_utc")
        /\ result.last_updated = Field("time_last_update_utc")

(* C4, amended: every response with status 200, result "success", a
   time_last_update_utc field and an NGN rate r > 0 yields Success with
   ngn_to_usd * r = 1, usd_to_ngn = r unchanged and last_updated the field
   verbatim; r = 1000 gives ngn_to_usd = 1/1000. *)
C4_SuccessValues ==
    (Parsed /\ up.status = 200 /\ DeclaresSuccess /\ NgnPresent /\ PositiveNumber(Ngn)
       /\ Has("time_last_update_utc")) =>
        /\ IsSuccess(result)
        /\ result.ngn_to_usd.t = "num"
        /\ result.ngn_to_usd.n * Ngn.n = result.ngn_to_usd.d * Ngn.d
        /\ (Ngn = JNum(1000, 1) => result.ngn_to_usd = JNum(1, 1000))
        /\ result.usd_to_ngn = Ngn
        /\ result.last_updated = Field("time_last_update_utc")

C4_Witness_Rate1000 ==
    /\ op = "fetch" /\ Parsed /\ up.status = 200 /\ DeclaresSuccess
    /\ Has("time_last_update_utc") /\ NgnPresent /\ Ngn = JNum(1000, 1)
    /\ IsSuccess(result) /\ result.ngn_to_usd = JNum(1, 1000)

(* C5 as stated: for a parsed response with status 200, result "success" and
   a rates mapping, the Failure "NGN rate not found in the response" is
   returned exactly when the NGN key is absent; a present NGN value, 0
   included, goes on to the division. *)
C5_Original ==
    (Parsed /\ up.status = 200 /\ DeclaresSuccess /\ HasRatesMapping) =>
        (result = NotFound <=> ~NgnPresent)

(* C5, amended: for a parsed response with status 200, result "success" and
   a rates mapping, the Failure "NGN rate not found in the response" is
   returned exactly when the NGN key is absent or its value is falsy (0 or
   null); the division is reached only for a truthy value, so it never
   divides by zero. *)
C5_NotFoundIffAbsentOrFalsy ==
    (Parsed /\ up.status = 200 /\ DeclaresSuccess /\ HasRatesMapping) =>
        /\ result = NotFound <=>
              (~NgnPresent \/ Ngn.t = "null" \/ (Ngn.t = "num" /\ Ngn.n = 0))
        /\ result # [error |-> "An unexpected error occurred: division by zero"]

C5_Witness_ZeroRate ==
    /\ op = "fetch" /\ Parsed /\ up.status = 200 /\ DeclaresSuccess
    /\ NgnPresent /\ Ngn = JNum(0, 1)
    /\ result = NotFound

(* C6 as stated: for every response whose body parses as structured data, a
   status other than 200 or a result other than "success" (a body with no
   result included) yields Failure "API Error: " followed by the error-type
   field or "Unknown error"; the check precedes the NGN lookup. *)
C6_Original ==
    (ParsedObject /\ (up.status # 200 \/ ~DeclaresSuccess)) =>
        result = [error |-> "API Error: " \o ErrorTypeText]

(* C6, amended: for every response whose body parses as a JSON object, a
   status other than 200, or status 200 with a declared result other than
   "success", yields Failure "API Error: " followed by the error-type field
   or "Unknown error", also when the body carries an NGN rate; a status 200
   body that declares no result yields the Failure
   "An unexpected error occurred: 'result'" instead. *)
C6_ApiError ==
    /\ (ParsedObject /\ (up.status # 200 \/ (Has("result") /\ ~DeclaresSuccess))) =>
          result = [error |-> "API Error: " \o ErrorTypeText]
    /\ (ParsedObject /\ up.status = 200 /\ ~Has("result")) =>
          result = [error |-> "An unexpected error occurred: 'result'"]

C6_Witness_PrecedesNgnLookup ==
    /\ op = "fetch" /\ ParsedObject /\ up.status = 403 /\ DeclaresSuccess
    /\ NgnPresent /\ Ngn = JNum(1000, 1) /\ Has("error-type")
    /\ result = [error |-> "API Error: forbidden"]

(* C7: when the outbound GET fails at transport level with text t, the call
   returns Failure with message exactly "Request failed: " followed by t. *)
C7_TransportFailure ==
    (Fetched /\ up.transport = "fail") =>
        result = [error |-> "Request failed: " \o up.text]

C7_Witness_ConnectionRefused ==
    /\ op = "fetch" /\ up.transport = "fail" /\ up.text = "Connection refused"
    /\ result = [error |-> "Request failed: Connection refused"]

(* C8: the outbound GETs issued are exactly one per fetch invocation, each
   to the fixed endpoint: no retry after a failure, and no invocation
   answered without a GET of its own. *)
C8_OneGetPerFetch ==
    /\ Len(outbound) = fetchCount
    /\ \A i \in 1..Len(outbound) : outbound[i] = "https://open.er-api.com/v6/latest/USD"

C8_Witness_FailedFetchNotRetried ==
    /\ fetchCount = 2 /\ Len(outbound) = 2
    /\ Fetched /\ up.transport = "fail"

(* C9 as stated: running the program performs one fetch, prints its result
   and terminates with exit status 0. *)
C9_Original ==
    op = "script" =>
        /\ proc = "exited"
        /\ Len(stdout) >= 2
        /\ stdout[1] = "Fetching current NGN to USD exchange rate...\n"

(* C9, amended: running the program as a script starts the web server: it
   prints the start-up line, performs no fetch, does not call main() and
   keeps serving.  A call of main() performs exactly one fetch and prints its
   result: "Error: {message}" on Failure; on Success the two rate lines
   (6 and 2 decimals) and the two timestamps.  main() then returns
   normally, except that a Success whose rate is an integer beyond the float
   range raises while the second rate line is formatted. *)
C9_ScriptServesMainPrints ==
    [][ /\ op' = "script" =>
              /\ proc' = "serving"
              /\ fetchCount' = fetchCount /\ outbound' = outbound
              /\ mainState' = "notcalled"
              /\ stdout' = <<"Starting web server. Access the exchange rate at http://127.0.0.1:5000/">>
        /\ op' = "main" =>
              /\ fetchCount' = fetchCount + 1
              /\ Len(outbound') = Len(outbound) + 1
              /\ stdout'[1] = "Fetching current NGN to USD exchange rate...\n"
              /\ IsFailure(result') =>
                    /\ mainState' = "returned"
                    /\ stdout' = <<stdout'[1], "Error: " \o result'.error>>
              /\ (IsSuccess(result') /\ result'.usd_to_ngn.t = "num") =>
                    /\ mainState' = "returned"
                    /\ Len(stdout') = 6
                    /\ stdout'[2] = "Current Exchange Rates:"
                    /\ result'.usd_to_ngn = JNum(1500, 1) =>
                          /\ stdout'[3] = "1 NGN = 0.000667 USD"
                          /\ stdout'[4] = "1 USD = 1500.00 NGN"
                    /\ result'.usd_to_ngn = JNum(1000, 1) =>
                          /\ stdout'[3] = "1 NGN = 0.001000 USD"
                          /\ stdout'[4] = "1 USD = 1000.00 NGN"
                    /\ stdout'[5] = "\nLast Updated: " \o result'.last_updated.s
                    /\ stdout'[6] = "Current Time: " \o result'.current_time
              /\ (IsSuccess(result') /\ result'.usd_to_ngn.t = "bigint") =>
                    mainState' = "raised"
      ]_vars

C9_Witness_MainPrintsError ==
    /\ op = "main" /\ mainState = "returned" /\ proc = "serving"
    /\ up.transport = "fail"
    /\ stdout = <<"Fetching current NGN to USD exchange rate...\n",
                  "Error: Request failed: Connection refused">>

(* C10: every exception raised after the GET returned a response (a body
   that is not valid JSON, a missing result or time_last_update_utc field, a
   non-numeric NGN rate) is returned as Failure "An unexpected error
   occurred: " followed by the error text, never with the transport prefix
   "Request failed: ". *)
C10_ParseErrorsAreUnexpected ==
    /\ (Fetched /\ up.transport = "ok" /\ ~up.body.valid) =>
          result = [error |-> "An unexpected error occurred: "
                              \o "Expecting value: line 1 column 1 (char 0)"]
    /\ (ParsedObject /\ up.status = 200 /\ ~Has("result")) =>
          result = [error |-> "An unexpected error occurred: 'result'"]
    /\ (Parsed /\ up.status = 200 /\ DeclaresSuccess /\ NgnPresent
          /\ PositiveNumber(Ngn) /\ ~Has("time_last_update_utc")) =>
          result = [error |-> "An unexpected error occurred: 'time_last_update_utc'"]
    /\ (Parsed /\ up.status = 200 /\ DeclaresSuccess /\ NgnPresent /\ Ngn.t = "str") =>
          result = [error |-> "An unexpected error occurred: "
                              \o "unsupported operand type(s) for /: 'int' and 'str'"]

====
